---------------------------- MODULE Spec2Model ----------------------------
(***************************************************************************)
(* Model of the physics-based orbital simulator (backend/physics/*.py and  *)
(* backend/main.py): the OrbitalSimulator engine, the CelestialBody model, *)
(* Newtonian gravity and the velocity-Verlet step.                         *)
(*                                                                         *)
(* Numbers.  The code computes with IEEE doubles.  Here a real x is the    *)
(* integer x * Scale (fixed point), and every arithmetic operation of the  *)
(* code is performed operation by operation on that representation,        *)
(* rounding toward zero.  The physical constants are rescaled to small     *)
(* values (G = 1, solar mass = 100, AU = 10, time step = 1) so that an     *)
(* orbit resolves within a few steps; no property below depends on the     *)
(* values.                                                                 *)
(*                                                                         *)
(* Objects.  CelestialBody objects live in `heap`, keyed by an object      *)
(* identity; `bodies` is the list self.bodies of identities, so that the   *)
(* code's `body is self.sun` is an identity test and not a test on names.  *)
(***************************************************************************)
EXTENDS Integers, Sequences, FiniteSets, TLC

\* ---------------------------------------------------------------- bounds
\* Resolution of the fixed-point representation of a float.
Scale == 100
\* Longest self.bodies (central body included) the model builds.
MaxBodies == 3
\* Running steps between two resets under Spec.
MaxSteps == 2
\* Running steps between two resets under SpecQuery.
QuerySteps == 1
\* Running steps between two resets under SpecLong.
LongSteps == 1002

\* ------------------------------------------------------------- constants
\* constants.py, in model units (see the note on numbers above).
G == 1
SOLAR_MASS == 100
AU == 10
DEFAULT_TIME_STEP == 1
\* gravity.py:128, the solar radius in model units (presentation only).
SUN_RADIUS == 0
\* gravity.py:45, the guard r < 1e-6, kept as the reciprocal of 1e-6.
EPS_INV == 1000000
\* simulator.py:29
max_trajectory_points == 1000
\* np.pi in units of 1e-5.
PI_E5 == 314159

\* ------------------------------------------------------------ arithmetic
Abs(a) == IF a < 0 THEN -a ELSE a

\* Integer quotient rounded toward zero.
TDiv(a, b) ==
    IF (a >= 0) = (b > 0) THEN Abs(a) \div Abs(b) ELSE -(Abs(a) \div Abs(b))

\* The float n.0 of an integer literal n.
Real(n) == n * Scale

\* The largest magnitude a float holds; a result beyond it is the float
\* inf or -inf, kept as Huge or -Huge.
Huge == 10000000
Saturate(a) == IF a > Huge THEN Huge ELSE IF a < -Huge THEN -Huge ELSE a
Signed(positive) == IF positive THEN Huge ELSE -Huge

\* a + b, a - b, a * b and a / b on floats.  The product is computed in two
\* parts, a = q * Scale + r, so that no intermediate value leaves the range
\* of 32-bit integers.  A quotient by a divisor that rounds to
\* zero is out of range.
FAdd(a, b) == Saturate(a + b)
FSub(a, b) == Saturate(a - b)
FMul(a, b) ==
    LET q == TDiv(a, Scale)
        r == a - q * Scale
    IN  IF q # 0 /\ Abs(b) > (2 * Huge) \div Abs(q)
        THEN Signed((a >= 0) = (b >= 0))
        ELSE Saturate(q * b + TDiv(r * b, Scale))
FDiv(a, b) ==
    IF b = 0 THEN (IF a = 0 THEN 0 ELSE Signed(a > 0))
    ELSE Saturate(TDiv(a * Scale, b))

RECURSIVE Newton(_, _)
Newton(n, x) ==
    LET y == (x + n \div x) \div 2
    IN  IF y >= x THEN x ELSE Newton(n, y)

\* A power of ten above the square root of n.
Guess(n) ==
    IF n < 100 THEN 10
    ELSE IF n < 10000 THEN 100
    ELSE IF n < 1000000 THEN 1000
    ELSE IF n < 100000000 THEN 10000
    ELSE 100000

\* Floor of the square root of a natural number, by Newton's iteration.
ISqrt(n) == IF n < 2 THEN n ELSE Newton(n, Guess(n))

\* np.sqrt on floats.
FSqrt(a) == ISqrt(a * Scale)

\* np.pi, np.radians, np.cos and np.sin.  cos and sin are taken at the
\* nearest multiple of pi/2, where they are 0, 1 or -1: the model draws
\* angles from the multiples of 90 degrees.
np_pi == TDiv(PI_E5 * Scale, 100000)
np_radians(deg) == TDiv(deg * np_pi, Real(180))
Quadrant(rad) == ((2 * rad + (np_pi \div 2)) \div np_pi) % 4
np_cos(rad) == Real(<<1, 0, -1, 0>>[Quadrant(rad) + 1])
np_sin(rad) == Real(<<0, 1, 0, -1>>[Quadrant(rad) + 1])

\* -------------------------------------------------------------- Vector3D
Vector3D(x, y, z) == [x |-> x, y |-> y, z |-> z]

Vector3D_add(a, b) ==
    Vector3D(FAdd(a.x, b.x), FAdd(a.y, b.y), FAdd(a.z, b.z))
Vector3D_sub(a, b) ==
    Vector3D(FSub(a.x, b.x), FSub(a.y, b.y), FSub(a.z, b.z))
Vector3D_mul(a, scalar) ==
    Vector3D(FMul(a.x, scalar), FMul(a.y, scalar), FMul(a.z, scalar))
Vector3D_truediv(a, scalar) ==
    Vector3D(FDiv(a.x, scalar), FDiv(a.y, scalar), FDiv(a.z, scalar))

magnitude(a) ==
    FSqrt(FAdd(FAdd(FMul(a.x, a.x), FMul(a.y, a.y)), FMul(a.z, a.z)))

normalize(a) ==
    LET mag == magnitude(a)
    IN  IF mag = 0 THEN Vector3D(0, 0, 0) ELSE Vector3D_truediv(a, mag)

cross(a, b) ==
    Vector3D(FSub(FMul(a.y, b.z), FMul(a.z, b.y)),
             FSub(FMul(a.z, b.x), FMul(a.x, b.z)),
             FSub(FMul(a.x, b.y), FMul(a.y, b.x)))

Vector3D_to_dict(a) == [x |-> a.x, y |-> a.y, z |-> a.z]

\* --------------------------------------------------------- CelestialBody
CelestialBody(name, mass, position, velocity, radius, color) ==
    [name |-> name, mass |-> mass, position |-> position,
     velocity |-> velocity, radius |-> radius, color |-> color,
     trajectory |-> <<>>, acceleration |-> Vector3D(0, 0, 0)]

create_sun ==
    CelestialBody("Sun", Real(SOLAR_MASS), Vector3D(0, 0, 0),
                  Vector3D(0, 0, 0), Real(SUN_RADIUS), "#FFD700")

\* The force on `self` from `other` (two body records).
calculate_gravitational_force(self, other) ==
    LET r_vector == Vector3D_sub(other.position, self.position)
        r == magnitude(r_vector)
    IN  IF r <= (Scale - 1) \div EPS_INV
        THEN Vector3D(0, 0, 0)
        ELSE LET r_hat == normalize(r_vector)
                 force_magnitude ==
                     FDiv(FMul(FMul(Real(G), self.mass), other.mass),
                          FMul(r, r))
             IN  Vector3D_mul(r_hat, force_magnitude)

\* The sum of the forces on object b from the objects of list[k..], in
\* list order, skipping b itself (by identity).
RECURSIVE total_force(_, _, _, _)
total_force(heap, list, b, k) ==
    IF k > Len(list) THEN Vector3D(0, 0, 0)
    ELSE IF list[k] = b THEN total_force(heap, list, b, k + 1)
    ELSE Vector3D_add(calculate_gravitational_force(heap[b], heap[list[k]]),
                      total_force(heap, list, b, k + 1))

\* The value calculate_acceleration returns (and stores) for object b.
calculate_acceleration(heap, list, b) ==
    Vector3D_truediv(total_force(heap, list, b, 1), heap[b].mass)

CelestialBody_to_dict(body) ==
    [name |-> body.name, mass |-> body.mass,
     position |-> Vector3D_to_dict(body.position),
     velocity |-> Vector3D_to_dict(body.velocity),
     radius |-> body.radius, color |-> body.color,
     acceleration |-> Vector3D_to_dict(body.acceleration)]

\* ------------------------------------------------------ OrbitalSimulator
\* A simulator is the record of its attributes; an operation is an operator
\* from the simulator before the call to the simulator after it.

\* The identity of the object self.sun.
sun == 0

None == [none |-> TRUE]

OrbitalSimulator(time_step, speed_multiplier) ==
    [time_step |-> time_step, speed_multiplier |-> speed_multiplier,
     bodies |-> <<sun>>, heap |-> (sun :> create_sun),
     time |-> 0, is_running |-> FALSE, trajectory_history |-> <<>>]

\* The identity of a newly allocated object.
NewId(heap) == CHOOSE i \in 0..Cardinality(DOMAIN heap) : i \notin DOMAIN heap

add_body(s, name, mass, position, velocity, radius, color) ==
    LET body == NewId(s.heap)
    IN  [s EXCEPT
           !.heap = (body :> CelestialBody(name, mass, position, velocity,
                                           radius, color)) @@ s.heap,
           !.bodies = Append(s.bodies, body)]

add_body_from_parameters(s, name, mass, distance_from_sun, initial_velocity, angle, radius, color) ==
    LET distance_m == FMul(distance_from_sun, Real(AU))
        angle_rad == np_radians(angle)
        position == Vector3D(FMul(distance_m, np_cos(angle_rad)),
                             FMul(distance_m, np_sin(angle_rad)), 0)
        velocity_angle == angle_rad + FDiv(np_pi, Real(2))
        velocity == Vector3D(FMul(initial_velocity, np_cos(velocity_angle)),
                             FMul(initial_velocity, np_sin(velocity_angle)),
                             0)
    IN  add_body(s, name, mass, position, velocity, radius, color)

\* A step that lacks the guard of simulator.py:85.
never_returns_early(s) == FALSE

\* step returns at once when this holds.
step_returns_early(s) == ~s.is_running

\* A step that ignores the speed multiplier.
dt_without_multiplier(s) == s.time_step

effective_dt(s) == FMul(s.time_step, s.speed_multiplier)

\* A step that exempts no body.
no_body_is_sun(body) == FALSE

\* `body is self.sun`
is_sun(body) == body = sun

\* A step without its first loop: each body keeps the acceleration the
\* step before left on it.
keep_cached_accelerations(heap, list, k) == heap

\* First loop of step: every body but the sun computes and stores its
\* acceleration from the current positions.  The heap after list[k..].
RECURSIVE calculate_accelerations(_, _, _)
calculate_accelerations(heap, list, k) ==
    IF k > Len(list) THEN heap
    ELSE IF is_sun(list[k]) THEN calculate_accelerations(heap, list, k + 1)
    ELSE calculate_accelerations(
             [heap EXCEPT ![list[k]].acceleration =
                              calculate_acceleration(heap, list, list[k])],
             list, k + 1)

\* A trajectory that records nothing.
store_nothing(trajectory, position) == trajectory

\* A trajectory that keeps the newest position only.
store_latest_only(trajectory, position) == <<position>>

\* The trajectory of a body after its new position is stored.
store_trajectory(trajectory, position) ==
    IF Len(trajectory) < max_trajectory_points
    THEN Append(trajectory, position)
    ELSE Append(Tail(trajectory), position)

\* Second loop of step, one body: the heap after the body is advanced, and
\* the local half_velocity.
update_body(heap, list, body, dt) ==
    LET b == heap[body]
        half_velocity ==
            Vector3D_add(b.velocity,
                         Vector3D_mul(b.acceleration, FDiv(dt, Real(2))))
        position == Vector3D_add(b.position, Vector3D_mul(half_velocity, dt))
        moved == [heap EXCEPT ![body].position = position]
        new_acceleration == calculate_acceleration(moved, list, body)
        velocity ==
            Vector3D_add(half_velocity,
                         Vector3D_mul(new_acceleration, FDiv(dt, Real(2))))
    IN  [heap |-> [moved EXCEPT
                     ![body].velocity = velocity,
                     ![body].acceleration = new_acceleration,
                     ![body].trajectory =
                         store_trajectory(b.trajectory, position)],
         half_velocity |-> half_velocity]

\* Second loop of step over list[k..]: r.heap is the heap, r.half the
\* half_velocity each body was advanced with.
RECURSIVE update_bodies(_, _, _, _)
update_bodies(r, list, k, dt) ==
    IF k > Len(list) THEN r
    ELSE IF is_sun(list[k]) THEN update_bodies(r, list, k + 1, dt)
    ELSE LET u == update_body(r.heap, list, list[k], dt)
         IN  update_bodies([heap |-> u.heap,
                            half |-> (list[k] :> u.half_velocity) @@ r.half],
                           list, k + 1, dt)

\* Both loops of step.
verlet(s) ==
    update_bodies([heap |-> calculate_accelerations(s.heap, s.bodies, 1),
                   half |-> <<>>],
                  s.bodies, 1, effective_dt(s))

\* The list [body.to_dict() for body in self.bodies if body is not self.sun]
RECURSIVE bodies_to_dict(_, _, _)
bodies_to_dict(heap, list, k) ==
    IF k > Len(list) THEN <<>>
    ELSE IF is_sun(list[k]) THEN bodies_to_dict(heap, list, k + 1)
    ELSE <<CelestialBody_to_dict(heap[list[k]])>>
             \o bodies_to_dict(heap, list, k + 1)

\* A history that overwrites its newest entry when full.
store_over_newest(history, state) ==
    IF Len(history) < max_trajectory_points
    THEN Append(history, state)
    ELSE Append(SubSeq(history, 1, Len(history) - 1), state)

\* The history after a state is stored.
store_history(history, state) ==
    IF Len(history) < max_trajectory_points
    THEN Append(history, state)
    ELSE Append(Tail(history), state)

_store_state(s) ==
    LET state == [time |-> s.time,
                  bodies |-> bodies_to_dict(s.heap, s.bodies, 1)]
    IN  [s EXCEPT !.trajectory_history =
                      store_history(s.trajectory_history, state)]

\* step: the simulator after the call (.sim) and the half_velocity of each
\* body it advanced (.half).
step_run(s) ==
    IF step_returns_early(s) THEN [sim |-> s, half |-> <<>>]
    ELSE CHOOSE out \in
             { [sim |-> _store_state([s EXCEPT
                                        !.heap = r.heap,
                                        !.time = s.time + effective_dt(s)]),
                half |-> r.half] : r \in {verlet(s)} } : TRUE

step(s) == step_run(s).sim

start(s) == [s EXCEPT !.is_running = TRUE]

\* A stop that toggles the run flag.
stop_toggles(s) == [s EXCEPT !.is_running = ~s.is_running]

stop(s) == [s EXCEPT !.is_running = FALSE]

\* A reset that keeps the bodies and what they recorded.
reset_keeps_bodies(s) ==
    [s EXCEPT !.time = 0, !.is_running = FALSE, !.trajectory_history = <<>>]

\* The bodies dropped from the list are unreachable from the simulator and
\* leave the heap.
reset(s) ==
    LET bodies == <<sun>>
    IN  [s EXCEPT
           !.time = 0,
           !.is_running = FALSE,
           !.bodies = bodies,
           !.trajectory_history = <<>>,
           !.heap = [b \in {bodies[k] : k \in 1..Len(bodies)} |->
                       [s.heap[b] EXCEPT !.trajectory = <<>>]]]

\* kepler.py: the magnitudes and the specific energy the elements are
\* derived from.  mu / r with r = 0.0 is a numpy division: it yields inf and
\* raises nothing.
calculate_orbital_elements(position, velocity, sun_mass) ==
    LET mu == FMul(Real(G), sun_mass)
        r == magnitude(position)
        v == magnitude(velocity)
        h_vector == cross(position, velocity)
        h == magnitude(h_vector)
        energy == IF r = 0 THEN "-inf"
                  ELSE FSub(FMul(FDiv(Real(1), Real(2)), FMul(v, v)),
                            FDiv(mu, r))
    IN  [r |-> r, v |-> v, h |-> h, energy |-> energy]

\* The bodies (b for b in self.bodies if b.name == body_name), in list order.
named(heap, list, body_name) ==
    SelectSeq(list, LAMBDA b : heap[b].name = body_name)

get_orbital_elements(s, body_name) ==
    LET found == named(s.heap, s.bodies, body_name)
    IN  IF found = <<>> \/ is_sun(found[1]) THEN None
        ELSE calculate_orbital_elements(s.heap[found[1]].position,
                                        s.heap[found[1]].velocity,
                                        s.heap[sun].mass)

\* ----------------------------------------------------------------- state
VARIABLES
    time_step, speed_multiplier,   \* self.time_step, self.speed_multiplier
    bodies,                        \* self.bodies, a list of object identities
    heap,                          \* the CelestialBody objects
    time,                          \* self.time
    is_running,                    \* self.is_running
    trajectory_history,            \* self.trajectory_history
    \* History variables, read by the properties only.
    lastOp,          \* the operation called last
    arg,             \* the body name it was called with, if any
    result,          \* what it returned, if it was a query
    half_velocity,   \* step's local half_velocity, per body advanced
    nsteps,          \* steps taken while running since the last reset
    poslog,          \* per body, its position after each step that moved it
    repeated,        \* the last operation is the one called before it
    cleared          \* what the last operation cleared, if it was reset

simVars == <<time_step, speed_multiplier, bodies, heap, time, is_running,
             trajectory_history>>
vars == <<time_step, speed_multiplier, bodies, heap, time, is_running,
          trajectory_history, lastOp, arg, result, half_velocity, nsteps,
          poslog, repeated, cleared>>

\* The simulator as it is now.
Self ==
    [time_step |-> time_step, speed_multiplier |-> speed_multiplier,
     bodies |-> bodies, heap |-> heap, time |-> time,
     is_running |-> is_running, trajectory_history |-> trajectory_history]

\* The simulator becomes s.
Becomes(s) ==
    /\ time_step' = s.time_step
    /\ speed_multiplier' = s.speed_multiplier
    /\ bodies' = s.bodies
    /\ heap' = s.heap
    /\ time' = s.time
    /\ is_running' = s.is_running
    /\ trajectory_history' = s.trajectory_history

\* Nothing cleared.
Kept == [count |-> 0, stepped |-> FALSE, is_running |-> FALSE]

\* The history variables after an operation that is no running step.
Called(op, name, returned) ==
    /\ lastOp' = op
    /\ arg' = name
    /\ result' = returned
    /\ half_velocity' = <<>>
    /\ repeated' = (lastOp = op)
    /\ cleared' = IF op = "reset"
                  THEN [count |-> Len(bodies) - 1, stepped |-> nsteps > 0,
                        is_running |-> is_running]
                  ELSE Kept

\* poslog after the simulator becomes s: the log of every object still
\* there, extended by the position of each body a running step moved.
Logged(s, moved) ==
    [b \in DOMAIN s.heap |->
        IF b \notin DOMAIN poslog THEN <<>>
        ELSE IF moved /\ ~is_sun(b) THEN Append(poslog[b], s.heap[b].position)
        ELSE poslog[b]]

\* ---------------------------------------------------------------- inputs
\* Requests to POST /simulation/add-body: name, mass, distance_from_sun
\* (AU), initial_velocity and angle (degrees); radius and color default.
\* One request names its body as the central body is named.
BodyCreate ==
    { [name |-> "Earth", mass |-> 50, distance_from_sun |-> 1,
       initial_velocity |-> 3, angle |-> 0],
      [name |-> "Sun", mass |-> 50, distance_from_sun |-> 2,
       initial_velocity |-> 2, angle |-> 90] }

\* Direct calls of add_body: a body off the orbital plane.
DirectBody ==
    { [name |-> "Probe", mass |-> 2,
       position |-> Vector3D(0, Real(6), Real(8)),
       velocity |-> Vector3D(Real(3), 0, 0)] }

\* Names asked of get_orbital_elements.
QueryNames == {"Earth", "Mars", "Sun", "Probe"}

\* Constructor arguments: time_step and speed_multiplier.
Configs == { <<DEFAULT_TIME_STEP, 1>>, <<DEFAULT_TIME_STEP, 2>> }

DefaultRadius == Real(0)
DefaultColor == "#ffffff"

\* --------------------------------------------------------------- actions
\* main.py:33, simulator = OrbitalSimulator(...)
InitWith(configs) ==
    \E c \in configs :
        LET s == OrbitalSimulator(Real(c[1]), Real(c[2]))
        IN  /\ time_step = s.time_step
            /\ speed_multiplier = s.speed_multiplier
            /\ bodies = s.bodies
            /\ heap = s.heap
            /\ time = s.time
            /\ is_running = s.is_running
            /\ trajectory_history = s.trajectory_history
            /\ lastOp = "__init__"
            /\ arg = ""
            /\ result = None
            /\ half_velocity = <<>>
            /\ nsteps = 0
            /\ poslog = [b \in DOMAIN s.heap |-> <<>>]
            /\ repeated = FALSE
            /\ cleared = Kept

Init == InitWith(Configs)

\* POST /simulation/add-body
AddBodyFromParameters(body) ==
    LET s == add_body_from_parameters(Self, body.name, Real(body.mass),
                 Real(body.distance_from_sun), Real(body.initial_velocity),
                 Real(body.angle), DefaultRadius, DefaultColor)
    IN  /\ Becomes(s)
        /\ Called("add_body_from_parameters", body.name, None)
        /\ poslog' = Logged(s, FALSE)
        /\ UNCHANGED nsteps

\* OrbitalSimulator.add_body called directly
AddBody(body) ==
    LET s == add_body(Self, body.name, Real(body.mass), body.position,
                      body.velocity, DefaultRadius, DefaultColor)
    IN  /\ Becomes(s)
        /\ Called("add_body", body.name, None)
        /\ poslog' = Logged(s, FALSE)
        /\ UNCHANGED nsteps

\* POST /simulation/start
Start ==
    /\ Becomes(start(Self))
    /\ Called("start", "", None)
    /\ UNCHANGED <<nsteps, poslog>>

\* POST /simulation/stop
Stop ==
    /\ Becomes(stop(Self))
    /\ Called("stop", "", None)
    /\ UNCHANGED <<nsteps, poslog>>

\* POST /simulation/reset
Reset ==
    LET s == reset(Self)
    IN  /\ Becomes(s)
        /\ Called("reset", "", None)
        /\ nsteps' = 0
        /\ poslog' = Logged(s, FALSE)

\* A call of simulator.step(), recorded as operation op.
CallStep(op) ==
    \E r \in {step_run(Self)} :
        /\ Becomes(r.sim)
        /\ lastOp' = op
        /\ arg' = ""
        /\ result' = None
        /\ half_velocity' = r.half
        /\ repeated' = (lastOp = op)
        /\ cleared' = Kept
        /\ nsteps' = IF is_running THEN nsteps + 1 ELSE nsteps
        /\ poslog' = Logged(r.sim, is_running)

\* GET /simulation/step
StepSimulation == CallStep("step")

\* One turn of the background simulation_loop, which calls step only
\* while the simulator runs and changes nothing otherwise.
SimulationLoop == is_running /\ CallStep("step")

\* GET /simulation/orbital-elements/{body_name}
GetOrbitalElements(body_name) ==
    /\ Called("get_orbital_elements", body_name,
              get_orbital_elements(Self, body_name))
    /\ UNCHANGED <<simVars, nsteps, poslog>>

\* A step that would advance the simulation is taken while fewer than n
\* were.
MayStep(n) == ~is_running \/ nsteps < n

Next ==
    \/ \E body \in BodyCreate :
          Len(bodies) < MaxBodies /\ AddBodyFromParameters(body)
    \/ \E body \in DirectBody : Len(bodies) < MaxBodies /\ AddBody(body)
    \/ Start
    \/ Stop
    \/ Reset
    \/ MayStep(MaxSteps) /\ StepSimulation
    \/ MayStep(MaxSteps) /\ SimulationLoop

Spec == Init /\ [][Next]_vars

\* The same simulator with its queries, over shorter runs.
NextQuery ==
    \/ \E body \in BodyCreate :
          Len(bodies) < MaxBodies /\ AddBodyFromParameters(body)
    \/ \E body \in DirectBody : Len(bodies) < MaxBodies /\ AddBody(body)
    \/ Start
    \/ Stop
    \/ Reset
    \/ MayStep(QuerySteps) /\ StepSimulation
    \/ \E body_name \in QueryNames : GetOrbitalElements(body_name)

SpecQuery == Init /\ [][NextQuery]_vars

\* The long run: the simulator main.py constructs, one body added before
\* the first step, and steps past the capacity of the trajectory and history
\* buffers.
LongBody ==
    [name |-> "Earth", mass |-> 1, distance_from_sun |-> 1,
     initial_velocity |-> 3, angle |-> 0]

InitLong == InitWith({ <<DEFAULT_TIME_STEP, 1>> })

NextLong ==
    \/ nsteps = 0 /\ Len(bodies) < 2 /\ AddBodyFromParameters(LongBody)
    \/ Start
    \/ Reset
    \/ MayStep(LongSteps) /\ StepSimulation

SpecLong == InitLong /\ [][NextLong]_vars

\* ------------------------------------------------------------ properties
\* The attributes of the simulator a start or a stop leaves alone.
restVars == <<time_step, speed_multiplier, bodies, heap, time,
              trajectory_history>>

\* The non-central bodies of the list.
Planets == {bodies[k] : k \in 1..Len(bodies)} \ {sun}

\* The time step in effect.
Dt == FMul(time_step, speed_multiplier)

\* C1.  A call of step while is_running is false changes nothing: the time,
\* the body list, every body's position, velocity, acceleration and
\* trajectory, the history and the run flag are after the call what they
\* were before it, in every reachable state and for every such call in a
\* row.
C1_StoppedStepIsNoOp ==
    [][(lastOp' = "step" /\ ~is_running) => UNCHANGED simVars]_vars

\* Two calls of step in a row while stopped, after the simulation advanced
\* with a body in it.
C1_Witness ==
    /\ lastOp = "step" /\ repeated /\ ~is_running
    /\ time > 0 /\ Len(bodies) > 1 /\ trajectory_history # <<>>

\* C2.  After reset the body list is exactly the central body, the time is
\* 0, the simulator is stopped, the history is empty and every trajectory is
\* empty; a second reset leaves that state as it is.
C2_ResetPostState ==
    lastOp = "reset" =>
        /\ bodies = <<sun>>
        /\ DOMAIN heap = {sun}
        /\ time = 0
        /\ ~is_running
        /\ trajectory_history = <<>>
        /\ \A b \in DOMAIN heap : heap[b].trajectory = <<>>
        /\ reset(Self) = Self

\* A reset of a running simulation that held two bodies and had advanced.
C2_Witness ==
    /\ lastOp = "reset"
    /\ cleared.count >= 2 /\ cleared.stepped /\ cleared.is_running

\* C3.  The trajectory of a body is a sliding window of capacity 1000 over
\* the positions its steps gave it: it never holds more than 1000 entries,
\* it holds the positions of the last steps in step order, oldest first,
\* and after more than 1000 steps it holds exactly 1000 and the entry of
\* the first step is gone.
C3_TrajectoryWindow ==
    \A b \in Planets :
        LET trajectory == heap[b].trajectory
            n == Len(poslog[b])
            first == n - Len(trajectory)
        IN  /\ Len(trajectory) <= 1000
            /\ Len(trajectory) = IF n < 1000 THEN n ELSE 1000
            /\ \A j \in 1..Len(trajectory) :
                   trajectory[j] = poslog[b][first + j]
            /\ n > 1000 =>
                   /\ Len(trajectory) = 1000
                   /\ first >= 1
                   /\ trajectory[1] = poslog[b][n - 999]
                   /\ trajectory[1] # poslog[b][1]

\* A body advanced by more than 1000 steps.
C3_Witness ==
    \E b \in Planets :
        /\ Len(poslog[b]) > 1000
        /\ Len(heap[b].trajectory) = 1000
        /\ lastOp = "step" /\ is_running

\* C4.  The central body created at construction is in the body list, as
\* its first element, in every reachable state; its position, velocity and
\* acceleration stay zero, and step computes no half_velocity for it.
C4_SunAnchored ==
    /\ Len(bodies) >= 1
    /\ bodies[1] = sun
    /\ \A k \in 2..Len(bodies) : bodies[k] # sun
    /\ sun \in DOMAIN heap
    /\ heap[sun] = create_sun
    /\ heap[sun].position = Vector3D(0, 0, 0)
    /\ heap[sun].velocity = Vector3D(0, 0, 0)
    /\ heap[sun].acceleration = Vector3D(0, 0, 0)
    /\ sun \notin DOMAIN half_velocity

\* Two running steps with two bodies around the central one, each pulled
\* toward it.
C4_Witness ==
    /\ lastOp = "step" /\ is_running /\ nsteps >= 2 /\ Len(bodies) = 3
    /\ \A b \in Planets : heap[b].acceleration # Vector3D(0, 0, 0)

\* C5.  The simulator starts stopped; start leads to running and stop to
\* stopped from either state, each changes the run flag only, each called
\* twice in a row does what it does called once, and reset leads to stopped.
C5_RunStateMachine ==
    /\ ~is_running
    /\ [][/\ lastOp' = "start" =>
                /\ is_running'
                /\ UNCHANGED restVars
                /\ start(start(Self)) = start(Self)
                /\ lastOp = "start" => UNCHANGED simVars
          /\ lastOp' = "stop" =>
                /\ ~is_running'
                /\ UNCHANGED restVars
                /\ stop(stop(Self)) = stop(Self)
                /\ lastOp = "stop" => UNCHANGED simVars
          /\ lastOp' = "reset" => ~is_running']_vars

\* A stop called twice in a row after the simulation advanced with a body
\* in it.
C5_Witness ==
    /\ lastOp = "stop" /\ repeated /\ ~is_running
    /\ time > 0 /\ Len(bodies) > 1

\* C6.  Each call of step while running adds time_step * speed_multiplier
\* to the time, once: after k such calls since construction or the last
\* reset the time is k times that, whatever the number of bodies.
C6_TimeAdvance ==
    /\ time = nsteps * FMul(time_step, speed_multiplier)
    /\ [][(lastOp' = "step" /\ is_running) =>
             time' = time + FMul(time_step, speed_multiplier)]_vars

\* Two running steps of a simulator that holds the central body only, with
\* a speed multiplier other than 1.
C6_Witness ==
    /\ lastOp = "step" /\ is_running /\ nsteps >= 2 /\ Len(bodies) = 1
    /\ speed_multiplier # Real(1)

\* C7.  Each call of step while running appends one snapshot to the
\* history, taken after the bodies were updated: it carries the time after
\* the step and one entry for each body but the central one.  The history
\* holds at most 1000 snapshots, the oldest leaves when it is full, and the
\* snapshot times ascend.
C7_HistorySnapshots ==
    LET n == Len(trajectory_history)
    IN  /\ n <= 1000
        /\ n = IF nsteps < 1000 THEN nsteps ELSE 1000
        /\ \A j \in 1..n :
               /\ trajectory_history[j].time = (nsteps - n + j) * Dt
               /\ \A k \in 1..Len(trajectory_history[j].bodies) :
                      trajectory_history[j].bodies[k]
                          # CelestialBody_to_dict(heap[sun])
        /\ \A j \in 1..(n - 1) :
               trajectory_history[j].time < trajectory_history[j + 1].time
        /\ (lastOp = "step" /\ is_running) =>
               /\ trajectory_history[n].time = time
               /\ Len(trajectory_history[n].bodies) = Len(bodies) - 1
               /\ \A k \in 2..Len(bodies) :
                      trajectory_history[n].bodies[k - 1]
                          = CelestialBody_to_dict(heap[bodies[k]])

\* A running step taken with a full history, a body in the simulation.
C7_Witness ==
    /\ lastOp = "step" /\ is_running
    /\ nsteps > 1000
    /\ Len(trajectory_history) = 1000
    /\ Len(bodies) > 1

\* C8.  get_orbital_elements returns None for a name no body has and for
\* the name of the central body, and an element set for the name of every
\* body but the central one.  A body added under the name of the central
\* body is found after it and gets None.
C8_QueryResult ==
    lastOp = "get_orbital_elements" =>
        /\ (\A k \in 1..Len(bodies) : heap[bodies[k]].name # arg)
               => result = None
        /\ heap[sun].name = arg => result = None
        /\ (\E b \in Planets : heap[b].name = arg) => result # None

\* C9.  No two bodies of the list have the same name.  add_body appends
\* whatever name it is given.
C9_NamesUnique ==
    \A i, j \in 1..Len(bodies) :
        i # j => heap[bodies[i]].name # heap[bodies[j]].name

\* C10, as stated.  A running step that follows a running step computes the
\* half_velocity of each body from the acceleration that step left on it.
C10_CachedAcceleration ==
    [][(lastOp = "step" /\ is_running /\ lastOp' = "step") =>
           \A b \in Planets :
               half_velocity'[b] =
                   Vector3D_add(heap[b].velocity,
                                Vector3D_mul(heap[b].acceleration,
                                             FDiv(Dt, Real(2))))]_vars

\* C10.  Every running step, the first or not, computes the half_velocity
\* of each body but the central one from an acceleration it computes anew
\* from the positions the bodies have before the step.
C10_FreshAcceleration ==
    [][(lastOp' = "step" /\ is_running) =>
           /\ DOMAIN half_velocity' = Planets
           /\ \A b \in Planets :
                  half_velocity'[b] =
                      Vector3D_add(heap[b].velocity,
                                   Vector3D_mul(
                                       calculate_acceleration(heap, bodies, b),
                                       FDiv(Dt, Real(2))))]_vars

\* A running step that follows a running step, with two bodies around the
\* central one.
C10_Witness ==
    /\ lastOp = "step" /\ is_running /\ repeated /\ nsteps >= 2
    /\ Cardinality(Planets) = 2
    /\ DOMAIN half_velocity = Planets
    /\ \A b \in Planets : Len(poslog[b]) >= 2

\* C11.  Within a running step no acceleration evaluated for a body reads
\* the position of another body that the step has advanced already: the
\* acceleration the step leaves on each body is the one of the body at its
\* new position among the others where they were before the step.  The
\* second loop advances the bodies in place, one after the other, so the
\* evaluation for a body reads the new positions of the bodies before it
\* in the list.
C11_NoReadAfterWrite ==
    [][(lastOp' = "step" /\ is_running) =>
           \A b \in Planets :
               heap'[b].acceleration =
                   calculate_acceleration(
                       [heap EXCEPT ![b].position = heap'[b].position],
                       bodies, b)]_vars

\* C12.  A body other than the central one whose trajectory is not empty is
\* at the position its trajectory ends with, and a body no running step has
\* advanced yet has an empty trajectory: the position of a body changes in
\* a running step only, and each such step records the position it gives.
C12_PositionIsLastEntry ==
    /\ \A b \in Planets :
           LET trajectory == heap[b].trajectory
           IN  /\ trajectory # <<>> =>
                      heap[b].position = trajectory[Len(trajectory)]
               /\ (poslog[b] = <<>>) = (trajectory = <<>>)
    /\ [][\A b \in Planets :
              b \in DOMAIN heap' =>
                  \/ heap'[b].position = heap[b].position
                  \/ /\ lastOp' = "step" /\ is_running
                     /\ heap'[b].trajectory # <<>>
                     /\ heap'[b].position =
                            heap'[b].trajectory[Len(heap'[b].trajectory)]]_vars

\* A body two running steps advanced, and beside it a body added since,
\* which no step has advanced.
C12_Witness ==
    \E b, c \in Planets :
        /\ Len(heap[b].trajectory) >= 2
        /\ heap[b].position # poslog[b][1]
        /\ poslog[c] = <<>> /\ heap[c].trajectory = <<>>
=============================================================================
